---- MODULE Spec2Model ----
(***************************************************************************)
(* The two dist_finder_lidar nodes of HT16_P2_EL2425:                      *)
(*   centerline_mpc/src/dist_finder_lidar.py  (pose estimate for the MPC)  *)
(*   centerline_pid/src/dist_finder_lidar.py  (heading error for the PID)  *)
(*                                                                         *)
(* Numbers.  A raw beam value is a Python float: <<"fin", n>> is the finite*)
(* value n (metres, integers), <<"nan", 0>> is NaN, <<"inf", 1>> and       *)
(* <<"inf", -1>> are +inf and -inf.  A quotient float(s) / n is kept as    *)
(* the fraction <<"rat", s, n>>; arctan and cos are not evaluated, their   *)
(* arguments are kept.                                                     *)
(* Angles are kept in quarter degrees (one beam step), so that pi is       *)
(* HalfTurn = 720 and np.radians is a change of unit.  Time is kept in     *)
(* units of 0.01 s.                                                        *)
(*                                                                         *)
(* Exceptions.  A call returns [exc |-> "none", val |-> v] or              *)
(* [exc |-> e, val |-> <<>>] with e the name of the Python exception that  *)
(* ends it.                                                                *)
(*                                                                         *)
(* The names range_min and range_max are read by getRange and are bound    *)
(* nowhere in the two files; they are taken as the externally supplied     *)
(* thresholds (RangeMin, RangeMax).  The PID file has two statements that  *)
(* Python does not parse (the sums of lines 63-88, continued over lines    *)
(* without parentheses, and the for of line 120, without its colon); they  *)
(* are read as the statements they spell.  Everything else is as written.  *)
(***************************************************************************)
EXTENDS Integers, Sequences, FiniteSets, TLC

VARIABLES now, timestamp_last_message, mpc, pose_pub, pid, error_pub,
          replica_stamp, replica, fn

vars == <<now, timestamp_last_message, mpc, pose_pub, pid, error_pub,
          replica_stamp, replica, fn>>

nodeVars == <<now, timestamp_last_message, mpc, pose_pub, pid, error_pub>>

replicaVars == <<replica_stamp, replica>>

----------------------------------------------------------------------------
(* Bounds of the model *)

\* the clock stops advancing here
MaxTime == 3
\* callbacks counted per node
MaxScans == 2
\* longest scan handed to a function on its own
MaxLen == 3

----------------------------------------------------------------------------
(* Program constants *)

NoneStamp == -1
TsDefault == 1
RangeMin == 1
RangeMax == 30
RangeSubstitute == 50
MinRangeInit == 1000
BeamCount == 1081
RightBeam == 180
FrontBeam == 540
LeftBeam == 900
HalfWindow == 2
TrendLength == 8
CCp == 5
HalfTurn == 720
QuarterTurn == 360

----------------------------------------------------------------------------
(* Python floats *)

Fin(n) == <<"fin", n>>
NaN == <<"nan", 0>>
PInf == <<"inf", 1>>
NInf == <<"inf", -1>>

isnan(x) == x[1] = "nan"
isinf(x) == x[1] = "inf"

\* x < y on floats: false as soon as one side is NaN
Lt(x, y) ==
    IF isnan(x) \/ isnan(y) THEN FALSE
    ELSE IF isinf(x) /\ isinf(y) THEN x[2] < y[2]
    ELSE IF isinf(x) THEN x[2] < 0
    ELSE IF isinf(y) THEN y[2] > 0
    ELSE x[2] < y[2]

Gt(x, y) == Lt(y, x)

Ok(v) == [exc |-> "none", val |-> v]
Raise(e) == [exc |-> e, val |-> <<>>]

\* A scan (data.ranges) is [len, fill, ovr]: len beams, beam k - 1 holding
\* ovr[k] where ovr is defined and fill elsewhere.
Beam(ranges, k) == IF k \in DOMAIN ranges.ovr THEN ranges.ovr[k] ELSE ranges.fill

\* data.ranges[i]; a negative index counts from the end
Subscript(ranges, i) ==
    LET j == IF i < 0 THEN i + ranges.len ELSE i
    IN  IF j >= 0 /\ j < ranges.len THEN Ok(Beam(ranges, j + 1))
        ELSE Raise("IndexError")

----------------------------------------------------------------------------
(* getRange, both variants *)

\* lines 34-37 without the upper test
Clamp_noupper(distance, withIsinf) ==
    IF isnan(distance) \/ Lt(distance, Fin(RangeMin)) THEN Fin(0) ELSE distance

\* the two tests of getRange, in their order; the MPC variant also asks isinf
Clamp(distance, withIsinf) ==
    LET d1 == IF isnan(distance) \/ Lt(distance, Fin(RangeMin))
              THEN Fin(0) ELSE distance
        d2 == IF (withIsinf /\ isinf(d1)) \/ Gt(d1, Fin(RangeMax))
              THEN Fin(RangeSubstitute) ELSE d1
    IN  d2

getRange_mpc(data, beam_index) ==
    LET e == Subscript(data, beam_index)
    IN  IF e.exc # "none" THEN e ELSE Ok(Clamp(e.val, TRUE))

getRange_pid(data, beam_index) ==
    LET e == Subscript(data, beam_index)
    IN  IF e.exc # "none" THEN e ELSE Ok(Clamp(e.val, FALSE))

\* x + y and x - y on floats
FAdd(x, y) ==
    IF x[1] = "fin" /\ y[1] = "fin" THEN Fin(x[2] + y[2])
    ELSE IF isnan(x) \/ isnan(y) THEN NaN
    ELSE IF isinf(x) /\ isinf(y) /\ x # y THEN NaN
    ELSE IF isinf(x) THEN x ELSE y

FNeg(x) == IF x[1] = "nan" THEN x ELSE <<x[1], 0 - x[2]>>

FSub(x, y) == FAdd(x, FNeg(y))

\* float(s) / n, kept as the fraction
Mean(s, n) == IF s[1] = "fin" THEN <<"rat", s[2], n>> ELSE s

----------------------------------------------------------------------------
(* getAverageRange and getLateralRanges of the MPC variant *)

RECURSIVE SumRange(_, _, _, _)
\* the for loop of getAverageRange: dist = dist + getRange(data, i)
SumRange(data, i, last, dist) ==
    IF i > last THEN Ok(dist)
    ELSE LET r == getRange_mpc(data, i)
         IN  IF r.exc # "none" THEN r
             ELSE SumRange(data, i + 1, last, FAdd(dist, r.val))

getAverageRange(data, beam_index, num_aux_scans_halfed) ==
    LET s == SumRange(data, beam_index - num_aux_scans_halfed,
                      beam_index + num_aux_scans_halfed, Fin(0))
    IN  IF s.exc # "none" THEN s
        ELSE Ok(Mean(s.val, 2 * num_aux_scans_halfed + 1))

\* [range_right, range_left]
getLateralRanges_mpc(data) ==
    LET range_right == getAverageRange(data, RightBeam, HalfWindow)
        range_left == getAverageRange(data, LeftBeam, HalfWindow)
    IN  IF range_right.exc # "none" THEN range_right
        ELSE IF range_left.exc # "none" THEN range_left
        ELSE Ok(<<range_right.val, range_left.val>>)

----------------------------------------------------------------------------
(* get_minimum_range *)

RECURSIVE MinLoop(_, _, _)
\* for r in ranges_scan: if r < min_range: min_range = r
MinLoop(ranges_scan, k, min_range) ==
    IF k > ranges_scan.len THEN min_range
    ELSE MinLoop(ranges_scan, k + 1,
                 IF Lt(Beam(ranges_scan, k), min_range)
                 THEN Beam(ranges_scan, k) ELSE min_range)

\* x == y on floats
FEq(x, y) == ~isnan(x) /\ ~isnan(y) /\ x = y

\* ranges_scan.index(x): the first position that holds x
ListIndex(ranges_scan, x) ==
    LET hits == {k \in 1..ranges_scan.len : FEq(Beam(ranges_scan, k), x)}
    IN  IF hits = {} THEN Raise("ValueError")
        ELSE Ok((CHOOSE k \in hits : \A j \in hits : k <= j) - 1)

\* lines 106-115: the minimum and its index, as the search leaves them
min_search(data) ==
    LET min_range == MinLoop(data, 1, Fin(MinRangeInit))
        min_index == ListIndex(data, min_range)
    IN  IF min_index.exc # "none" THEN min_index
        ELSE Ok(<<min_range, min_index.val>>)

\* lines 117-118: list.append takes one argument; nothing is returned
get_minimum_range(data) ==
    LET found == min_search(data)
    IN  IF found.exc # "none" THEN found ELSE Raise("TypeError")

----------------------------------------------------------------------------
(* getLateralRanges and getRangeSequenceSign of the PID variant *)

RECURSIVE SumBeams(_, _, _, _)
\* getRange(data, i) + ... + getRange(data, last), left to right
SumBeams(data, i, last, acc) ==
    IF i > last THEN Ok(acc)
    ELSE LET r == getRange_pid(data, i)
         IN  IF r.exc # "none" THEN r
             ELSE SumBeams(data, i + 1, last, FAdd(acc, r.val))

\* getRange(data, c-2) + ... + getRange(data, c+2), then / 5
FiveBeamMean(data, c) ==
    LET s == SumBeams(data, c - 2, c + 2, Fin(0))
    IN  IF s.exc # "none" THEN s ELSE Ok(Mean(s.val, 5))

\* lines 63-93: the list `distance` = [range_right, range_face, range_left]
lateral_distance(data) ==
    LET range_right == FiveBeamMean(data, RightBeam)
        range_face == FiveBeamMean(data, FrontBeam)
        range_left == FiveBeamMean(data, LeftBeam)
    IN  IF range_right.exc # "none" THEN range_right
        ELSE IF range_face.exc # "none" THEN range_face
        ELSE IF range_left.exc # "none" THEN range_left
        ELSE Ok(<<range_right.val, range_face.val, range_left.val>>)

PyNone == <<"None">>

\* the function ends after line 93 without a return: the caller gets None
getLateralRanges_pid(data) ==
    LET distance == lateral_distance(data)
    IN  IF distance.exc # "none" THEN distance ELSE Ok(PyNone)

RECURSIVE TrendLoop(_, _, _, _, _)
\* for i in range(-length/2, length/2 + 1): distances.append(
\*     getRange(data, beam_index + i + 1) - getRange(data, beam_index + i))
TrendLoop(data, beam_index, i, last, distances) ==
    IF i > last THEN Ok(distances)
    ELSE LET hi == getRange_pid(data, beam_index + i + 1)
             lo == getRange_pid(data, beam_index + i)
         IN  IF hi.exc # "none" THEN hi
             ELSE IF lo.exc # "none" THEN lo
             ELSE TrendLoop(data, beam_index, i + 1, last,
                            Append(distances, FSub(hi.val, lo.val)))

\* lines 115-121: the list `distances`
trend_distances(data, beam_index, length) ==
    LET len == IF length % 2 = 1 THEN length + 1 ELSE length
    IN  TrendLoop(data, beam_index, 0 - (len \div 2), len \div 2, <<>>)

\* line 123 returns sum(distance); the list is named distances and no
\* name distance is bound
getRangeSequenceSign(data, beam_index, length) ==
    LET distances == trend_distances(data, beam_index, length)
    IN  IF distances.exc # "none" THEN distances ELSE Raise("NameError")

----------------------------------------------------------------------------
(* The arithmetic of the two callbacks *)

\* x >= y on two fractions with positive denominators
RatGe(x, y) == x[2] * y[3] >= y[2] * x[3]

RECURSIVE WrapDown(_)
\* while phi > np.pi: phi -= 2*np.pi
WrapDown(phi) == IF phi > HalfTurn THEN WrapDown(phi - 2 * HalfTurn) ELSE phi

RECURSIVE WrapUp(_)
\* while phi < -np.pi: phi += 2*np.pi
WrapUp(phi) == IF phi < 0 - HalfTurn THEN WrapUp(phi + 2 * HalfTurn) ELSE phi

\* MPC lines 149-152, in quarter degrees: float(540-min_index)/4 -+ 90
raw_heading(L_ge_R, min_index) ==
    IF L_ge_R THEN (FrontBeam - min_index) - QuarterTurn
    ELSE (FrontBeam - min_index) + QuarterTurn

\* MPC lines 149-160
heading(L_ge_R, min_index) == WrapUp(WrapDown(raw_heading(L_ge_R, min_index)))

\* MPC line 163: OC = 0.5 * (L-R) * np.cos(phi), kept as its factors; the
\* product is 0 exactly when L = R or cos(phi) = 0
centerline_offset(L, R, phi) ==
    [half_of |-> <<"rat", L[2] * R[3] - R[2] * L[3], L[3] * R[3]>>,
     cos_of |-> phi]

OffsetIsZero(OC) ==
    OC.half_of[2] = 0 \/ OC.cos_of \in {QuarterTurn, 0 - QuarterTurn}

\* float(x) / y on fractions; Python raises on a zero divisor
RatDiv(x, y) ==
    IF y[2] = 0 THEN Raise("ZeroDivisionError")
    ELSE Ok(<<"rat", x[2] * y[3], x[3] * y[2]>>)

RatAdd(x, y) == <<"rat", x[2] * y[3] + y[2] * x[3], x[3] * y[3]>>
RatSub(x, y) == <<"rat", x[2] * y[3] - y[2] * x[3], x[3] * y[3]>>
RatScale(c, x) == <<"rat", c * x[2], x[3]>>

\* PID lines 160-171, given the lateral ranges and the outcome of the test
\* getRangeSequenceSign(data, 540, 8) > 0
tan_args(R, F, L, trend_positive) ==
    LET tan_arg_1 == RatDiv(RatSub(L, R), RatScale(2 * CCp, RatAdd(L, R)))
        tan_arg_2 == IF trend_positive THEN RatDiv(RatScale(-1, R), F)
                     ELSE RatDiv(L, F)
    IN  IF tan_arg_1.exc # "none" THEN tan_arg_1
        ELSE IF tan_arg_2.exc # "none" THEN tan_arg_2
        ELSE Ok([tan_arg_1 |-> tan_arg_1.val, tan_arg_2 |-> tan_arg_2.val])

\* PID lines 179-185: error = -arctan(tan_arg_1) + arctan(tan_arg_2) lies
\* strictly between -pi and pi, so the first loop does not iterate; the test
\* of the second loop reads angle_error, a name that is bound nowhere
pid_error(R, F, L, trend_positive) ==
    LET args == tan_args(R, F, L, trend_positive)
    IN  IF args.exc # "none" THEN args ELSE Raise("NameError")

----------------------------------------------------------------------------
(* The callbacks *)

\* a callback that writes the stamp only once the ranges were read
callback_mpc_latewrite(data, stamp, t1, t2) ==
    LET ts == IF stamp = NoneStamp THEN TsDefault ELSE t1 - stamp
        ranges_list == getLateralRanges_mpc(data)
    IN  IF ranges_list.exc # "none"
        THEN [exc |-> ranges_list.exc, ts |-> ts, stamp |-> stamp, pub |-> <<>>]
        ELSE [exc |-> "TypeError", ts |-> ts, stamp |-> t2, pub |-> <<>>]

\* MPC callback.  t1 and t2 are the two readings of rospy.Time.now() (lines
\* 131 and 135).  Line 140 calls the list ranges_list, which ends every scan
\* whose lateral windows could be read; lines 144-176 are not reached.
callback_mpc(data, stamp, t1, t2) ==
    LET ts == IF stamp = NoneStamp THEN TsDefault ELSE t1 - stamp
        ranges_list == getLateralRanges_mpc(data)
    IN  IF ranges_list.exc # "none"
        THEN [exc |-> ranges_list.exc, ts |-> ts, stamp |-> t2, pub |-> <<>>]
        ELSE [exc |-> "TypeError", ts |-> ts, stamp |-> t2, pub |-> <<>>]

\* PID callback.  Line 142 calls ranges_list, which is None.
callback_pid(data) ==
    LET ranges_list == getLateralRanges_pid(data)
    IN  IF ranges_list.exc # "none"
        THEN [exc |-> ranges_list.exc, pub |-> <<>>]
        ELSE [exc |-> "TypeError", pub |-> <<>>]

----------------------------------------------------------------------------
(* Scans *)

\* raw beam values: invalid ones of each kind, valid ones, large ones
RawVals == {NaN, PInf, NInf, Fin(-1), Fin(0), Fin(5), Fin(10), Fin(40),
            Fin(1000), Fin(2000)}

\* the scan of len beams that holds fill everywhere but val at beam at
Scan(len, fill, at, val) ==
    [len |-> len, fill |-> fill,
     ovr |-> IF at < len THEN (at + 1) :> val ELSE <<>>]

\* scan lengths: empty, too short for the window at 180, too short for the
\* window at 900, one beam short of it, the sensor's beam count
ScanLens == {0, RightBeam + 1, LeftBeam + 1, LeftBeam + HalfWindow, BeamCount}

\* the scans the two nodes receive
NodeScans == {Scan(n, Fin(5), LeftBeam, Fin(5)) : n \in ScanLens}
             \cup {Scan(BeamCount, NaN, LeftBeam, PInf)}

\* full scans handed to the arithmetic of the callbacks and to the trend
FullScans == {Scan(BeamCount, f, a, v) :
                 f \in {NaN, Fin(5), Fin(10)},
                 a \in {RightBeam, FrontBeam - 4, FrontBeam + 5, LeftBeam},
                 v \in {NaN, PInf, Fin(0), Fin(5), Fin(10), Fin(40)}}

\* beam values of the short scans
SmallVals == {NaN, PInf, Fin(0), Fin(5), Fin(1000), Fin(2000)}

\* short scans, every content
SmallScans == {[len |-> Len(r), fill |-> NaN, ovr |-> r] :
                  r \in UNION {[1..n -> SmallVals] : n \in 0..MaxLen}}

NoScan == [len |-> 0, fill |-> NaN, ovr |-> <<>>]

----------------------------------------------------------------------------
(* The nodes *)

Init ==
    /\ now = 0
    /\ timestamp_last_message = NoneStamp
    /\ mpc = [n |-> 0, scan |-> NoScan, exc |-> "none", ts |-> 0,
              prev |-> NoneStamp]
    /\ pose_pub = <<>>
    /\ pid = [n |-> 0, scan |-> NoScan, exc |-> "none"]
    /\ error_pub = <<>>
    /\ replica_stamp = NoneStamp
    /\ replica = [n |-> 0, scan |-> NoScan, exc |-> "none", ts |-> 0,
                  prev |-> NoneStamp]
    /\ fn = [name |-> "none", args |-> <<>>, out |-> <<>>]

\* time passes between two callbacks
Tick ==
    /\ now < MaxTime
    /\ now' = now + 1
    /\ UNCHANGED <<timestamp_last_message, mpc, pose_pub, pid, error_pub,
                   replica_stamp, replica, fn>>

\* the MPC node receives scan d; the clock may advance between the two
\* readings of rospy.Time.now().  mpc records the callback: the scan, how it
\* ended, the ts it computed and the stamp it found (prev)
MpcScan(d) ==
    /\ mpc.n < MaxScans
    /\ \E t2 \in now..(IF now < MaxTime THEN now + 1 ELSE now) :
       \E r \in {callback_mpc(d, timestamp_last_message, now, t2)} :
              /\ timestamp_last_message' = r.stamp
              /\ mpc' = [n |-> mpc.n + 1, scan |-> d, exc |-> r.exc,
                         ts |-> r.ts, prev |-> timestamp_last_message]
              /\ pose_pub' = pose_pub \o r.pub
              /\ now' = t2
    /\ UNCHANGED <<pid, error_pub, replica_stamp, replica, fn>>

\* the PID node receives scan d
PidScan(d) ==
    /\ pid.n < MaxScans
    /\ \E r \in {callback_pid(d)} :
           /\ pid' = [n |-> pid.n + 1, scan |-> d, exc |-> r.exc]
           /\ error_pub' = error_pub \o r.pub
    /\ UNCHANGED <<now, timestamp_last_message, mpc, pose_pub,
                   replica_stamp, replica, fn>>

Next ==
    \/ Tick
    \/ \E d \in NodeScans : MpcScan(d)
    \/ \E d \in NodeScans : PidScan(d)

Spec == Init /\ [][Next]_vars

----------------------------------------------------------------------------
(* The functions on their own: one call from the initial state; fn holds   *)
(* the call, its arguments and what it returned or raised                  *)

Idle == fn.name = "none"

Called(name, args, out) == [name |-> name, args |-> args, out |-> out]

ApplyGetRangeMpc ==
    /\ Idle
    /\ \E v \in RawVals :
          fn' = Called("getRange_mpc", <<v>>, getRange_mpc(Scan(1, v, 0, v), 0))
    /\ UNCHANGED <<nodeVars, replicaVars>>

ApplyGetRangePid ==
    /\ Idle
    /\ \E v \in RawVals :
          fn' = Called("getRange_pid", <<v>>, getRange_pid(Scan(1, v, 0, v), 0))
    /\ UNCHANGED <<nodeVars, replicaVars>>

ApplyGetAverageRange ==
    /\ Idle
    /\ \E data \in SmallScans, c \in -1..MaxLen, k \in 0..1 :
          fn' = Called("getAverageRange", <<data, c, k>>,
                       getAverageRange(data, c, k))
    /\ UNCHANGED <<nodeVars, replicaVars>>

ApplyGetMinimumRange ==
    /\ Idle
    /\ \E data \in SmallScans :
          fn' = Called("get_minimum_range", <<data>>, get_minimum_range(data))
    /\ UNCHANGED <<nodeVars, replicaVars>>

ApplyGetRangeSequenceSign ==
    /\ Idle
    /\ \E data \in FullScans, length \in {TrendLength - 1, TrendLength} :
          fn' = Called("getRangeSequenceSign", <<data, FrontBeam, length>>,
                       getRangeSequenceSign(data, FrontBeam, length))
    /\ UNCHANGED <<nodeVars, replicaVars>>

ApplyHeading ==
    /\ Idle
    /\ \E L_ge_R \in BOOLEAN, min_index \in 0..(BeamCount - 1) :
          fn' = Called("heading", <<L_ge_R, min_index>>,
                       heading(L_ge_R, min_index))
    /\ UNCHANGED <<nodeVars, replicaVars>>

\* MPC lines 148-163 on the lateral ranges of a full scan
ApplyOffset ==
    /\ Idle
    /\ \E data \in FullScans, min_index \in {0, FrontBeam, LeftBeam} :
          LET lat == getLateralRanges_mpc(data).val
              R == lat[1]
              L == lat[2]
              phi == heading(RatGe(L, R), min_index)
          IN  fn' = Called("offset", <<R, L, min_index>>,
                           [L_ge_R |-> RatGe(L, R), psi |-> phi,
                            y |-> centerline_offset(L, R, phi)])
    /\ UNCHANGED <<nodeVars, replicaVars>>

\* PID lines 160-171 on the lateral ranges of a full scan
ApplyTanArgs ==
    /\ Idle
    /\ \E data \in FullScans, trend_positive \in BOOLEAN :
          LET d == lateral_distance(data).val
          IN  fn' = Called("tan_args", <<d[1], d[2], d[3], trend_positive>>,
                           tan_args(d[1], d[2], d[3], trend_positive))
    /\ UNCHANGED <<nodeVars, replicaVars>>

\* PID lines 160-185 on the lateral ranges of a full scan
ApplyPidError ==
    /\ Idle
    /\ \E data \in FullScans, trend_positive \in BOOLEAN :
          LET d == lateral_distance(data).val
          IN  fn' = Called("pid_error", <<d[1], d[2], d[3], trend_positive>>,
                           pid_error(d[1], d[2], d[3], trend_positive))
    /\ UNCHANGED <<nodeVars, replicaVars>>

NextFn ==
    \/ ApplyGetRangeMpc
    \/ ApplyGetRangePid
    \/ ApplyGetAverageRange
    \/ ApplyGetMinimumRange
    \/ ApplyGetRangeSequenceSign
    \/ ApplyHeading
    \/ ApplyOffset
    \/ ApplyTanArgs
    \/ ApplyPidError

SpecFn == Init /\ [][NextFn]_vars

----------------------------------------------------------------------------
(* The MPC callback run twice: the node, and a second run of its callback  *)
(* on the same scan from the same stored stamp, reading the clock at its   *)
(* own, later, time                                                        *)

ReplayScan(d) ==
    /\ mpc.n < MaxScans
    /\ \E t2 \in now..(IF now < MaxTime THEN now + 1 ELSE now) :
       \E r1 \in now..MaxTime :
       \E r2 \in r1..(IF r1 < MaxTime THEN r1 + 1 ELSE r1) :
       \E first \in {callback_mpc(d, timestamp_last_message, now, t2)} :
       \E again \in {callback_mpc(d, timestamp_last_message, r1, r2)} :
              /\ timestamp_last_message' = first.stamp
              /\ mpc' = [n |-> mpc.n + 1, scan |-> d, exc |-> first.exc,
                         ts |-> first.ts, prev |-> timestamp_last_message]
              /\ pose_pub' = pose_pub \o first.pub
              /\ replica_stamp' = again.stamp
              /\ replica' = [n |-> mpc.n + 1, scan |-> d, exc |-> again.exc,
                             ts |-> again.ts, prev |-> timestamp_last_message]
              /\ now' = t2
    /\ UNCHANGED <<pid, error_pub, fn>>

NextReplay ==
    \/ Tick
    \/ \E d \in NodeScans : ReplayScan(d)

SpecReplay == Init /\ [][NextReplay]_vars

----------------------------------------------------------------------------
(* Claims *)

\* a scan long enough for the windows around beams 180 and 900
CoversWindows(d) == d.len > LeftBeam + HalfWindow

\* C1: a scan that raises a structural error publishes nothing, and the
\* well-formed scan after it publishes exactly one pose, with the ts it
\* would have had if the failed scan had never been received.
C1_ErrorScanLeavesNoTrace ==
    [][mpc'.n = mpc.n + 1 =>
          /\ ~CoversWindows(mpc'.scan) => pose_pub' = pose_pub
          /\ (mpc.n > 0 /\ ~CoversWindows(mpc.scan)
                /\ CoversWindows(mpc'.scan)) =>
                /\ Len(pose_pub') = Len(pose_pub) + 1
                /\ mpc'.ts = IF mpc.prev = NoneStamp THEN TsDefault
                             ELSE now - mpc.prev]_vars

\* C2: on a scan with the full beam count, whatever its values, each
\* callback runs to completion and publishes.
C2_InvalidSamplesAbsorbed ==
    /\ (mpc.n > 0 /\ mpc.scan.len = BeamCount) =>
          (mpc.exc = "none" /\ Len(pose_pub) > 0)
    /\ (pid.n > 0 /\ pid.scan.len = BeamCount) =>
          (pid.exc = "none" /\ Len(error_pub) > 0)

\* C3: the heading after the two loops is greater than -pi, at most pi and
\* congruent to the raw angle; the PID normalisation delivers its angle too.
C3_AngleInHalfOpenInterval ==
    /\ fn.name = "heading" =>
          /\ fn.out > 0 - HalfTurn
          /\ fn.out <= HalfTurn
          /\ (fn.out - raw_heading(fn.args[1], fn.args[2])) % (2 * HalfTurn) = 0
    /\ (fn.name = "pid_error" /\ fn.out.exc # "ZeroDivisionError") =>
          fn.out.exc = "none"

RECURSIVE SanitizedSum(_, _, _)
SanitizedSum(data, i, last) ==
    IF i > last THEN 0
    ELSE Clamp(Beam(data, i + 1), TRUE)[2] + SanitizedSum(data, i + 1, last)

\* C4: getAverageRange raises IndexError as soon as an index of c-k..c+k is
\* below 0 or above the last beam, and returns the mean of the sanitized
\* beams c-k..c+k otherwise.
C4_WindowNeverWraps ==
    fn.name = "getAverageRange" =>
        LET data == fn.args[1]
            c == fn.args[2]
            k == fn.args[3]
        IN  IF \E i \in (c - k)..(c + k) : i < 0 \/ i >= data.len
            THEN fn.out.exc = "IndexError"
            ELSE fn.out = Ok(<<"rat", SanitizedSum(data, c - k, c + k),
                               2 * k + 1>>)

\* C5: get_minimum_range returns the smallest value of a non-empty scan and
\* the lowest index that holds it, and raises on an empty scan.
C5_MinimumAndFirstIndex ==
    fn.name = "get_minimum_range" =>
        LET data == fn.args[1]
        IN  IF data.len = 0 THEN fn.out.exc # "none"
            ELSE /\ fn.out.exc = "none"
                 /\ fn.out.val[2] \in 0..(data.len - 1)
                 /\ Beam(data, fn.out.val[2] + 1) = fn.out.val[1]
                 /\ \A j \in 1..data.len :
                       /\ ~Lt(Beam(data, j), fn.out.val[1])
                       /\ j < fn.out.val[2] + 1 =>
                             Beam(data, j) # fn.out.val[1]

IsGetRange == fn.name \in {"getRange_mpc", "getRange_pid"}

FiniteInRange(r) == r[1] = "fin" /\ r[2] >= 0 /\ r[2] <= RangeSubstitute

\* C6, as stated: 0 when v is NaN or below range_min, 50 when v is infinite
\* or above range_max, v otherwise.
C6_AsStated ==
    IsGetRange =>
        LET v == fn.args[1]
            r == fn.out.val
            low == isnan(v) \/ Lt(v, Fin(RangeMin))
            high == isinf(v) \/ Gt(v, Fin(RangeMax))
        IN  /\ fn.out.exc = "none"
            /\ FiniteInRange(r)
            /\ low => r = Fin(0)
            /\ high => r = Fin(RangeSubstitute)
            /\ (~low /\ ~high) => r = v

\* C6, amended: getRange returns a finite value in [0, 50]: 0 when v is NaN
\* or below range_min (-infinity included), 50 when v is +infinity or above
\* range_max, v otherwise.
C6_Sanitized ==
    IsGetRange =>
        LET v == fn.args[1]
            r == fn.out.val
            low == isnan(v) \/ Lt(v, Fin(RangeMin))
            high == v = PInf \/ Gt(v, Fin(RangeMax))
        IN  /\ fn.out.exc = "none"
            /\ FiniteInRange(r)
            /\ low => r = Fin(0)
            /\ (~low /\ high) => r = Fin(RangeSubstitute)
            /\ (~low /\ ~high) => r = v

\* getRange was given -infinity and returned 0
C6_Witness ==
    /\ fn.name = "getRange_mpc"
    /\ fn.args = <<NInf>>
    /\ fn.out = Ok(Fin(0))

\* C7, as stated: the stored stamp changes only on a scan that publishes.
C7_AsStated ==
    [][timestamp_last_message' # timestamp_last_message =>
          Len(pose_pub') = Len(pose_pub) + 1]_vars

\* C7, amended: every scan, abandoned or not, overwrites the stored stamp
\* with a reading of the clock taken during its callback; its ts is 0.01 s
\* on the first scan and otherwise the clock at the start of the callback
\* minus the stamp the previous callback stored.
C7_StampWrittenOnEveryScan ==
    [][mpc'.n = mpc.n + 1 =>
          /\ timestamp_last_message' \in now..now'
          /\ mpc'.ts = IF timestamp_last_message = NoneStamp THEN TsDefault
                       ELSE now - timestamp_last_message]_vars

\* a second scan was abandoned on an IndexError, two ticks after the scan
\* before it, and the stamp is the time of the abandoned scan
C7_Witness ==
    /\ mpc.n = 2
    /\ mpc.exc = "IndexError"
    /\ mpc.ts = 2 * TsDefault
    /\ timestamp_last_message = now
    /\ now >= 2

\* C8: a second run of the callback on the same scan from the same stored
\* stamp ends the same way, with the same ts and the same stored stamp.
C8_Deterministic ==
    mpc.n > 0 =>
        /\ replica.exc = mpc.exc
        /\ replica.ts = mpc.ts
        /\ replica_stamp = timestamp_last_message

\* C9: when R = L, the MPC variant takes the L >= R branch and y = 0, and
\* the PID variant computes tan_arg_1 = 0 (term1 = arctan(0) = 0).
C9_Symmetry ==
    /\ (fn.name = "offset" /\ fn.args[1] = fn.args[2]) =>
          (fn.out.L_ge_R /\ OffsetIsZero(fn.out.y))
    /\ (fn.name = "tan_args" /\ fn.args[1] = fn.args[3]) =>
          (fn.out.exc = "none" /\ fn.out.val.tan_arg_1[2] = 0)

\* C10: getRangeSequenceSign(data, 540, n) returns
\* sanitized(545) - sanitized(536), for n = 8 and for n = 7 rounded up.
C10_TrendTelescopes ==
    fn.name = "getRangeSequenceSign" =>
        LET data == fn.args[1]
            c == fn.args[2]
            half == TrendLength \div 2
        IN  /\ fn.out.exc = "none"
            /\ fn.out.val = FSub(getRange_pid(data, c + half + 1).val,
                                 getRange_pid(data, c - half).val)

====
